---- MODULE Spec2Model ----
(***************************************************************************)
(* Model of the identity reconciliation endpoint, POST /identify, of       *)
(* backend/server.js: the contacts table, the pg transaction each request  *)
(* opens on its own client, and the reads the handler issues through the   *)
(* pool.                                                                   *)
(*                                                                         *)
(* Every await of the handler is one action; the synchronous code that     *)
(* follows an await belongs to the action of that await.                   *)
(***************************************************************************)
EXTENDS Integers, Sequences, FiniteSets, TLC

\* ------------------------------------------------------------------ bounds

\* requests the server receives in one run
MaxArrivals == 4
\* requests the server receives in a run in which handlers overlap
MaxRaceArrivals == 3
\* handler invocations that may be in flight at once
MaxInFlight == 2
\* connections of the pool (new Pool({...}) sets no max: pg's default, scaled
\* down to the number of requests in flight)
PoolMax == 2
\* contacts soft-deleted in the store
MaxDeletes == 1
\* requests that may overlap before the requests come one at a time
MaxEarly == 2
\* requests answered one at a time before two requests overlap
MaxWarmup == 2

\* ------------------------------------------------------------------ values

\* a request field that is absent (undefined in JS, NULL in SQL)
NULL == "NULL"
\* ids are positive; 0 is a NULL linked_id / the absence of a row
NoId == 0

Emails == {"e1", "e2"}
Phones == {"p1", "p2"}
\* req.body.email / req.body.phoneNumber of the requests explored
InputEmails == Emails \cup {NULL}
InputPhones == Phones \cup {NULL}

Requests == 1..MaxInFlight
\* CURRENT_TIMESTAMP values: every transaction can begin later than the last
MaxTime == MaxArrivals + 1

\* JS truthiness of a request field or column value (filter(Boolean), !email)
Truthy(x) == x \notin {NULL, ""}

VARIABLES
  contacts,          \* the committed rows of table contacts
  nextId,            \* the SERIAL sequence of contacts.id
  arrivals,          \* requests received so far
  pc,                \* where each handler invocation stands
  email,             \* req.body.email
  phoneNumber,       \* req.body.phoneNumber
  txStart,           \* CURRENT_TIMESTAMP of the invocation's transaction
  txInserts,         \* rows inserted by the open transaction, not yet committed
  txUpdates,         \* row updates of the open transaction, not yet committed
  existingContacts,  \* const existingContacts
  primaryContact,    \* let primaryContact
  familyContacts,    \* const familyContacts
  toDemote,          \* what is left of the for loop over multiplePrimaries
  response,          \* what res.status(..).json(..) sent
  storeBefore,       \* history: the committed rows when the request arrived
  prev               \* history: the request answered last and its response

vars == <<contacts, nextId, arrivals, pc, email, phoneNumber, txStart, txInserts,
          txUpdates, existingContacts, primaryContact, familyContacts,
          toDemote, response, storeBefore, prev>>

\* ------------------------------------------------------------------ rows

\* one row of table contacts (updated_at is written and never read: left out)
Row(id, e, p, linked, prec, created) ==
  [id |-> id, email |-> e, phone_number |-> p, linked_id |-> linked,
   link_precedence |-> prec, created_at |-> created, deleted_at |-> NULL]

NoContact == Row(NoId, NULL, NULL, NoId, "none", 0)
NoResponse == [status |-> 0]

\* mutant of Live: the deleted_at IS NULL condition is missing
LiveAll(db) == db

Live(db) == {c \in db : c.deleted_at = NULL}

\* every listing of the rows S in ascending key order; rows with equal keys
\* come in any order (ORDER BY leaves the order of ties open)
RECURSIVE OrderBy(_, _)
OrderBy(S, key) ==
  IF S = {} THEN {<<>>}
  ELSE LET mins == {c \in S : \A d \in S : key[c] <= key[d]}
       IN UNION {{<<c>> \o t : t \in OrderBy(S \ {c}, key)} : c \in mins}

\* SELECT * FROM contacts WHERE (email = $1 OR phone_number = $2)
\*   AND deleted_at IS NULL: a NULL parameter equals nothing
RelatedRows(db, e, p) ==
  {c \in Live(db) : (e # NULL /\ c.email = e) \/ (p # NULL /\ c.phone_number = p)}

\* the result sets findRelatedContacts may return: ORDER BY created_at ASC
findRelatedContacts(db, e, p) ==
  LET S == RelatedRows(db, e, p)
  IN OrderBy(S, [c \in S |-> c.created_at])

\* WITH RECURSIVE contact_family: from the rows F, the rows linked to one of
\* them and the rows one of them links to, until nothing is added
RECURSIVE ContactFamilyRows(_, _)
ContactFamilyRows(db, F) ==
  LET down == {c \in Live(db) : \E f \in F : c.linked_id = f.id}
      up   == {c \in Live(db) : \E f \in F : c.id = f.linked_id}
      G    == F \cup down \cup up
  IN IF G = F THEN F ELSE ContactFamilyRows(db, G)

\* ORDER BY link_precedence DESC, created_at ASC: 'secondary' sorts above
\* 'primary', so descending order lists the secondaries first
FamilyKey(c) ==
  (IF c.link_precedence = "secondary" THEN 0 ELSE MaxTime + 1) + c.created_at

\* the result sets findContactFamily may return
findContactFamily(db, contactId) ==
  LET S == ContactFamilyRows(db, {c \in Live(db) : c.id = contactId})
  IN OrderBy(S, [c \in S |-> FamilyKey(c)])

\* ------------------------------------------------------------------ JS helpers

Range(s) == {s[i] : i \in DOMAIN s}

\* s.filter(c => keep[c])
RECURSIVE Filter(_, _)
Filter(s, keep) ==
  IF s = <<>> THEN <<>>
  ELSE (IF keep[Head(s)] THEN <<Head(s)>> ELSE <<>>) \o Filter(Tail(s), keep)

\* [...new Set(s)]: the first occurrence of each value, in order
RECURSIVE Dedup(_)
Dedup(s) ==
  IF s = <<>> THEN <<>>
  ELSE LET d == Dedup(SubSeq(s, 1, Len(s) - 1))
           x == s[Len(s)]
       IN IF x \in Range(d) THEN d ELSE Append(d, x)

\* s.map(c => c.email).filter(Boolean)
EmailsOf(s) ==
  LET m == [i \in DOMAIN s |-> s[i].email]
  IN Filter(m, [x \in Range(m) |-> Truthy(x)])

\* s.map(c => c.phone_number).filter(Boolean)
PhonesOf(s) ==
  LET m == [i \in DOMAIN s |-> s[i].phone_number]
  IN Filter(m, [x \in Range(m) |-> Truthy(x)])

\* existingContacts.filter(c => c.link_precedence === 'primary')
multiplePrimaries(existing) ==
  Filter(existing, [c \in Range(existing) |-> c.link_precedence = "primary"])

\* mutant of oldestPrimary: the comparison turned round, so the reduce keeps
\* the newest primary
RECURSIVE newestPrimary(_)
newestPrimary(ps) ==
  IF Len(ps) = 1 THEN ps[1]
  ELSE LET oldest  == newestPrimary(SubSeq(ps, 1, Len(ps) - 1))
           current == ps[Len(ps)]
       IN IF current.created_at > oldest.created_at THEN current ELSE oldest

\* multiplePrimaries.reduce((oldest, current) =>
\*   new Date(current.created_at) < new Date(oldest.created_at) ? current : oldest)
RECURSIVE oldestPrimary(_)
oldestPrimary(ps) ==
  IF Len(ps) = 1 THEN ps[1]
  ELSE LET oldest  == oldestPrimary(SubSeq(ps, 1, Len(ps) - 1))
           current == ps[Len(ps)]
       IN IF current.created_at < oldest.created_at THEN current ELSE oldest

\* mutant of needNewContact: the new-information test is missing
needNewContactAlways(e, p, family) == TRUE

\* mutant of needNewContact: the phone half of the test is missing
needNewContactEmailOnly(e, p, family) ==
  Truthy(e) /\ e \notin Range(EmailsOf(family))

\* (email && !existingEmails.includes(email)) ||
\* (phoneNumber && !existingPhones.includes(phoneNumber))
needNewContact(e, p, family) ==
  \/ Truthy(e) /\ e \notin Range(EmailsOf(family))
  \/ Truthy(p) /\ p \notin Range(PhonesOf(family))

\* mutant of NewSecondary: the INSERT is given both request fields as they
\* came
NewSecondaryBothFields(id, e, p, family, primaryId, created) ==
  Row(id, e, p, primaryId, "secondary", created)

\* the arguments of the secondary INSERT: only the fragments the family lacks
NewSecondary(id, e, p, family, primaryId, created) ==
  Row(id,
      IF Truthy(e) /\ e \notin Range(EmailsOf(family)) THEN e ELSE NULL,
      IF Truthy(p) /\ p \notin Range(PhonesOf(family)) THEN p ELSE NULL,
      primaryId, "secondary", created)

\* familyContacts.filter(c => c.link_precedence === 'secondary').map(c => c.id)
secondaryIds(family) ==
  LET f == Filter(family, [c \in Range(family) |-> c.link_precedence = "secondary"])
  IN [i \in DOMAIN f |-> f[i].id]

\* the body of the 200 response after a match
MatchResponse(primary, family) ==
  [status |-> 200,
   primaryContactId |-> primary.id,
   emails |-> Dedup(EmailsOf(family)),
   phoneNumbers |-> Dedup(PhonesOf(family)),
   secondaryContactIds |-> secondaryIds(family)]

\* mutant of FreshResponse: the fields are listed without the email ? / 
\* phoneNumber ? tests
FreshResponseUnguarded(newContact, e, p) ==
  [status |-> 200,
   primaryContactId |-> newContact.id,
   emails |-> <<e>>,
   phoneNumbers |-> <<p>>,
   secondaryContactIds |-> <<>>]

\* the body of the 200 response after creating a fresh primary
FreshResponse(newContact, e, p) ==
  [status |-> 200,
   primaryContactId |-> newContact.id,
   emails |-> IF Truthy(e) THEN <<e>> ELSE <<>>,
   phoneNumbers |-> IF Truthy(p) THEN <<p>> ELSE <<>>,
   secondaryContactIds |-> <<>>]

\* res.status(400).json({error: ...})
ValidationResponse == [status |-> 400, error |-> "missing"]

\* ------------------------------------------------------------------ transactions

\* an UPDATE contacts SET ... WHERE id = $n; linked_id is kept when the
\* statement does not name it
Update(id, prec, setsLinked, linked) ==
  [id |-> id, link_precedence |-> prec, setsLinked |-> setsLinked, linked_id |-> linked]

\* mutant of ApplyUpdate: the UPDATE stamps created_at where the code stamps
\* updated_at
ApplyUpdateStampsCreatedAt(c, u) ==
  IF c.id # u.id THEN c
  ELSE [c EXCEPT !.link_precedence = u.link_precedence,
                 !.linked_id = IF u.setsLinked THEN u.linked_id ELSE @,
                 !.created_at = MaxTime]

ApplyUpdate(c, u) ==
  IF c.id # u.id THEN c
  ELSE [c EXCEPT !.link_precedence = u.link_precedence,
                 !.linked_id = IF u.setsLinked THEN u.linked_id ELSE @]

\* mutant of ApplyUpdates: the updated rows are deleted (a merge that removes
\* the duplicate instead of re-labelling it)
ApplyUpdatesDeleting(db, us) ==
  {c \in db : \A i \in DOMAIN us : us[i].id # c.id}

RECURSIVE ApplyUpdates(_, _)
ApplyUpdates(db, us) ==
  IF us = <<>> THEN db
  ELSE ApplyUpdates({ApplyUpdate(c, Head(us)) : c \in db}, Tail(us))

\* COMMIT: the transaction's inserts and updates become the committed rows
Committed(db, inserts, updates) == ApplyUpdates(db \cup inserts, updates)

\* rows on which transaction r holds a row lock (it updated them)
LockedBy(r) == {txUpdates[r][i].id : i \in DOMAIN txUpdates[r]}

\* an UPDATE waits while another open transaction has updated the same row
CanUpdate(r, id) == \A o \in Requests \ {r} : id \notin LockedBy(o)

InFlight == {r \in Requests : pc[r] \notin {"idle", "done"}}

\* ------------------------------------------------------------------ initial state

Init ==
  /\ contacts = {}
  /\ nextId = 1
  /\ arrivals = 0
  /\ pc = [r \in Requests |-> "idle"]
  /\ email = [r \in Requests |-> NULL]
  /\ phoneNumber = [r \in Requests |-> NULL]
  /\ txStart = [r \in Requests |-> 0]
  /\ txInserts = [r \in Requests |-> {}]
  /\ txUpdates = [r \in Requests |-> <<>>]
  /\ existingContacts = [r \in Requests |-> <<>>]
  /\ primaryContact = [r \in Requests |-> NoContact]
  /\ familyContacts = [r \in Requests |-> <<>>]
  /\ toDemote = [r \in Requests |-> <<>>]
  /\ response = [r \in Requests |-> NoResponse]
  /\ storeBefore = [r \in Requests |-> {}]
  /\ prev = [email |-> NULL, phoneNumber |-> NULL, response |-> NoResponse]

\* ------------------------------------------------------------------ POST /identify

\* mutant of Invalid: the validation is missing
InvalidNever(e, p) == FALSE

\* mutant of Invalid: only empty strings are rejected, absent fields pass
InvalidEmptyStringsOnly(e, p) == e = "" /\ p = ""

\* if (!email && !phoneNumber)
Invalid(e, p) == ~Truthy(e) /\ ~Truthy(p)

\* the handler up to its first await: destructure the body, validate, and
\* either answer 400 or ask the pool for a client
Identify(r, e, p) ==
  /\ pc[r] = "idle"
  /\ arrivals < MaxArrivals
  /\ arrivals' = arrivals + 1
  /\ email' = [email EXCEPT ![r] = e]
  /\ phoneNumber' = [phoneNumber EXCEPT ![r] = p]
  /\ storeBefore' = [storeBefore EXCEPT ![r] = contacts]
  /\ IF Invalid(e, p)
     THEN /\ response' = [response EXCEPT ![r] = ValidationResponse]
          /\ pc' = [pc EXCEPT ![r] = "done"]
     ELSE /\ response' = response
          /\ pc' = [pc EXCEPT ![r] = "connect"]
  /\ UNCHANGED <<contacts, nextId, txStart, txInserts, txUpdates,
                 existingContacts, primaryContact, familyContacts, toDemote, prev>>

\* const client = await pool.connect()
Connect(r) ==
  /\ pc[r] = "connect"
  /\ pc' = [pc EXCEPT ![r] = "begin"]
  /\ UNCHANGED <<contacts, nextId, email, phoneNumber, txStart, txInserts,
                 txUpdates, existingContacts, primaryContact, familyContacts,
                 toDemote, response, storeBefore, prev,
                 arrivals>>

\* the timestamps a transaction beginning now may get: later than every
\* committed row, not earlier than a transaction still open, and equal to an
\* open transaction's only when the two begin together
BeginTimes(r) ==
  LET open      == {txStart[o] : o \in {o \in InFlight \ {r} : pc[o] \notin {"connect", "begin"}}}
      committed == {c.created_at : c \in contacts}
      Max(S)    == IF S = {} THEN 0 ELSE CHOOSE x \in S : \A y \in S : y <= x
      lo        == IF Max(open) > Max(committed) THEN Max(open) ELSE Max(committed) + 1
  IN {t \in {lo, lo + 1} : t <= MaxTime /\ (t = lo + 1 => lo \in open)}

\* await client.query('BEGIN'): CURRENT_TIMESTAMP is the transaction's start
Begin(r) ==
  /\ pc[r] = "begin"
  /\ \E t \in BeginTimes(r) :
       txStart' = [txStart EXCEPT ![r] = t]
  /\ pc' = [pc EXCEPT ![r] = "findRelated"]
  /\ UNCHANGED <<contacts, nextId, email, phoneNumber, txInserts, txUpdates,
                 existingContacts, primaryContact, familyContacts, toDemote,
                 response, storeBefore, prev,
                 arrivals>>

\* mutant of FindPrimary: the last matched primary is taken, not the first
FindPrimaryLast(existing) ==
  LET ps == multiplePrimaries(existing)
  IN IF ps # <<>> THEN ps[Len(ps)] ELSE existing[1]

\* existingContacts.find(c => c.link_precedence === 'primary'), or
\* existingContacts[0] when there is none
FindPrimary(existing) ==
  LET ps == multiplePrimaries(existing)
  IN IF ps # <<>> THEN ps[1] ELSE existing[1]

\* const existingContacts = await findRelatedContacts(email, phoneNumber):
\* a pool.query, which reads the committed rows; then the branch on its length
\* and the choice of primaryContact
FindRelated(r) ==
  /\ pc[r] = "findRelated"
  /\ \E rows \in findRelatedContacts(contacts, email[r], phoneNumber[r]) :
       /\ existingContacts' = [existingContacts EXCEPT ![r] = rows]
       /\ IF Len(rows) = 0
          THEN /\ pc' = [pc EXCEPT ![r] = "insertPrimary"]
               /\ primaryContact' = primaryContact
          ELSE /\ primaryContact' = [primaryContact EXCEPT ![r] = FindPrimary(rows)]
               /\ pc' = [pc EXCEPT ![r] =
                           IF FindPrimary(rows).link_precedence # "primary"
                           THEN "promote" ELSE "findFamily"]
  /\ UNCHANGED <<contacts, nextId, email, phoneNumber, txStart, txInserts,
                 txUpdates, familyContacts, toDemote, response, storeBefore, prev,
                 arrivals>>

\* INSERT INTO contacts (email, phone_number, link_precedence)
\*   VALUES ($1, $2, 'primary') RETURNING *
NewPrimary(id, e, p, created) == Row(id, e, p, NoId, "primary", created)

\* await client.query(insertQuery, [email, phoneNumber]) of the no-match branch
InsertPrimary(r) ==
  /\ pc[r] = "insertPrimary"
  /\ LET newContact == NewPrimary(nextId, email[r], phoneNumber[r], txStart[r])
     IN /\ txInserts' = [txInserts EXCEPT ![r] = @ \cup {newContact}]
        /\ primaryContact' = [primaryContact EXCEPT ![r] = newContact]
  /\ nextId' = nextId + 1
  /\ pc' = [pc EXCEPT ![r] = "commitFresh"]
  /\ UNCHANGED <<contacts, email, phoneNumber, txStart, txUpdates,
                 existingContacts, familyContacts, toDemote, response,
                 storeBefore, prev,
                 arrivals>>

\* await client.query('COMMIT') of the no-match branch, return res.json(..),
\* and the finally block's client.release()
CommitFresh(r) ==
  /\ pc[r] = "commitFresh"
  /\ contacts' = Committed(contacts, txInserts[r], txUpdates[r])
  /\ txInserts' = [txInserts EXCEPT ![r] = {}]
  /\ txUpdates' = [txUpdates EXCEPT ![r] = <<>>]
  /\ response' = [response EXCEPT ![r] =
                    FreshResponse(primaryContact[r], email[r], phoneNumber[r])]
  /\ pc' = [pc EXCEPT ![r] = "done"]
  /\ UNCHANGED <<nextId, email, phoneNumber, txStart, existingContacts,
                 primaryContact, familyContacts, toDemote, storeBefore, prev,
                 arrivals>>

\* UPDATE contacts SET link_precedence = 'primary' WHERE id = $2
PromoteUpdate(id) == Update(id, "primary", FALSE, NoId)

\* no primary among the matches: "the first one becomes primary". The UPDATE
\* runs on the client; primaryContact.link_precedence = 'primary' then changes
\* the object that is also existingContacts[0]
Promote(r) ==
  /\ pc[r] = "promote"
  /\ CanUpdate(r, primaryContact[r].id)
  /\ txUpdates' = [txUpdates EXCEPT ![r] = Append(@, PromoteUpdate(primaryContact[r].id))]
  /\ primaryContact' = [primaryContact EXCEPT ![r].link_precedence = "primary"]
  /\ existingContacts' = [existingContacts EXCEPT ![r][1].link_precedence = "primary"]
  /\ pc' = [pc EXCEPT ![r] = "findFamily"]
  /\ UNCHANGED <<contacts, nextId, email, phoneNumber, txStart, txInserts,
                 familyContacts, toDemote, response, storeBefore, prev,
                 arrivals>>

\* the contacts the for loop over multiplePrimaries updates
OthersToDemote(existing) ==
  LET ps == multiplePrimaries(existing)
  IN IF Len(ps) > 1
     THEN Filter(ps, [c \in Range(ps) |-> c.id # oldestPrimary(ps).id])
     ELSE <<>>

\* where the handler goes once the secondary question is settled: into the
\* consolidation loop or to COMMIT
AfterSecondary(r) ==
  /\ toDemote' = [toDemote EXCEPT ![r] = OthersToDemote(existingContacts[r])]
  /\ pc' = [pc EXCEPT ![r] =
              IF OthersToDemote(existingContacts[r]) # <<>> THEN "demote" ELSE "commit"]

\* const familyContacts = await findContactFamily(primaryContact.id): a
\* pool.query again, so it reads the committed rows; then the new-information
\* check
FindFamily(r) ==
  /\ pc[r] = "findFamily"
  /\ \E rows \in findContactFamily(contacts, primaryContact[r].id) :
       /\ familyContacts' = [familyContacts EXCEPT ![r] = rows]
       /\ IF needNewContact(email[r], phoneNumber[r], rows)
          THEN /\ pc' = [pc EXCEPT ![r] = "insertSecondary"]
               /\ toDemote' = toDemote
          ELSE AfterSecondary(r)
  /\ UNCHANGED <<contacts, nextId, email, phoneNumber, txStart, txInserts,
                 txUpdates, existingContacts, primaryContact, response,
                 storeBefore, prev,
                 arrivals>>

\* mutant of InsertSecondary: the INSERT goes through the pool, as the reads
\* do, so it is committed at once and outside the transaction
InsertSecondaryThroughPool(r) ==
  /\ pc[r] = "insertSecondary"
  /\ LET newSecondary == NewSecondary(nextId, email[r], phoneNumber[r],
                                      familyContacts[r], primaryContact[r].id,
                                      txStart[r])
     IN /\ contacts' = contacts \cup {newSecondary}
        /\ familyContacts' = [familyContacts EXCEPT ![r] = Append(@, newSecondary)]
  /\ nextId' = nextId + 1
  /\ AfterSecondary(r)
  /\ UNCHANGED <<txInserts, email, phoneNumber, txStart, txUpdates,
                 existingContacts, primaryContact, response, storeBefore, prev,
                 arrivals>>

\* const newSecondary = await client.query(insertQuery, [...]) and
\* familyContacts.push(newSecondary.rows[0])
InsertSecondary(r) ==
  /\ pc[r] = "insertSecondary"
  /\ LET newSecondary == NewSecondary(nextId, email[r], phoneNumber[r],
                                      familyContacts[r], primaryContact[r].id,
                                      txStart[r])
     IN /\ txInserts' = [txInserts EXCEPT ![r] = @ \cup {newSecondary}]
        /\ familyContacts' = [familyContacts EXCEPT ![r] = Append(@, newSecondary)]
  /\ nextId' = nextId + 1
  /\ AfterSecondary(r)
  /\ UNCHANGED <<contacts, email, phoneNumber, txStart, txUpdates,
                 existingContacts, primaryContact, response, storeBefore, prev,
                 arrivals>>

\* UPDATE contacts SET link_precedence = 'secondary', linked_id = $2 WHERE id = $3
DemoteUpdate(id, oldestId) == Update(id, "secondary", TRUE, oldestId)

\* mutant of Demote: the UPDATE goes through the pool, so it is committed at
\* once and outside the transaction
DemoteThroughPool(r) ==
  /\ pc[r] = "demote"
  /\ LET oldest == oldestPrimary(multiplePrimaries(existingContacts[r]))
         contact == Head(toDemote[r])
     IN /\ CanUpdate(r, contact.id)
        /\ contacts' = {ApplyUpdate(c, DemoteUpdate(contact.id, oldest.id)) : c \in contacts}
        /\ toDemote' = [toDemote EXCEPT ![r] = Tail(@)]
        /\ IF Tail(toDemote[r]) = <<>>
           THEN /\ primaryContact' = [primaryContact EXCEPT ![r] = oldest]
                /\ pc' = [pc EXCEPT ![r] = "commit"]
           ELSE UNCHANGED <<primaryContact, pc>>
  /\ UNCHANGED <<txUpdates, nextId, email, phoneNumber, txStart, txInserts,
                 existingContacts, familyContacts, response, storeBefore, prev,
                 arrivals>>

\* one turn of the for loop over multiplePrimaries; after the last one,
\* primaryContact = oldestPrimary
Demote(r) ==
  /\ pc[r] = "demote"
  /\ LET oldest == oldestPrimary(multiplePrimaries(existingContacts[r]))
         contact == Head(toDemote[r])
     IN /\ CanUpdate(r, contact.id)
        /\ txUpdates' = [txUpdates EXCEPT ![r] = Append(@, DemoteUpdate(contact.id, oldest.id))]
        /\ toDemote' = [toDemote EXCEPT ![r] = Tail(@)]
        /\ IF Tail(toDemote[r]) = <<>>
           THEN /\ primaryContact' = [primaryContact EXCEPT ![r] = oldest]
                /\ pc' = [pc EXCEPT ![r] = "commit"]
           ELSE UNCHANGED <<primaryContact, pc>>
  /\ UNCHANGED <<contacts, nextId, email, phoneNumber, txStart, txInserts,
                 existingContacts, familyContacts, response, storeBefore, prev,
                 arrivals>>

\* await client.query('COMMIT'), the response built from familyContacts, and
\* the finally block's client.release()
Commit(r) ==
  /\ pc[r] = "commit"
  /\ contacts' = Committed(contacts, txInserts[r], txUpdates[r])
  /\ txInserts' = [txInserts EXCEPT ![r] = {}]
  /\ txUpdates' = [txUpdates EXCEPT ![r] = <<>>]
  /\ response' = [response EXCEPT ![r] =
                    MatchResponse(primaryContact[r], familyContacts[r])]
  /\ pc' = [pc EXCEPT ![r] = "done"]
  /\ UNCHANGED <<nextId, email, phoneNumber, txStart, existingContacts,
                 primaryContact, familyContacts, toDemote, storeBefore, prev,
                 arrivals>>

\* the response has been sent and the invocation is over; the slot takes the
\* next request
Finish(r) ==
  /\ pc[r] = "done"
  /\ pc' = [pc EXCEPT ![r] = "idle"]
  /\ email' = [email EXCEPT ![r] = NULL]
  /\ phoneNumber' = [phoneNumber EXCEPT ![r] = NULL]
  /\ txStart' = [txStart EXCEPT ![r] = 0]
  /\ existingContacts' = [existingContacts EXCEPT ![r] = <<>>]
  /\ primaryContact' = [primaryContact EXCEPT ![r] = NoContact]
  /\ familyContacts' = [familyContacts EXCEPT ![r] = <<>>]
  /\ toDemote' = [toDemote EXCEPT ![r] = <<>>]
  /\ response' = [response EXCEPT ![r] = NoResponse]
  /\ storeBefore' = [storeBefore EXCEPT ![r] = {}]
  /\ UNCHANGED <<contacts, nextId, txInserts, txUpdates, arrivals>>

\* ------------------------------------------------------------------ failures

\* res.status(500).json({error: 'Internal server error', ...})
ServerError == [status |-> 500, error |-> "Internal server error"]

\* the awaits between BEGIN and COMMIT, both included: each is a store
\* operation inside the inner try
TxOps == {"begin", "findRelated", "insertPrimary", "commitFresh", "promote",
          "findFamily", "insertSecondary", "demote", "commit"}

\* pool.connect() rejects: the outer catch answers 500, no client was taken
ConnectFail(r) ==
  /\ pc[r] = "connect"
  /\ response' = [response EXCEPT ![r] = ServerError]
  /\ pc' = [pc EXCEPT ![r] = "done"]
  /\ UNCHANGED <<contacts, nextId, arrivals, email, phoneNumber, txStart,
                 txInserts, txUpdates, existingContacts, primaryContact,
                 familyContacts, toDemote, storeBefore, prev>>

\* mutant of QueryFail: there is no catch block with a ROLLBACK; the error
\* goes to finally, the client is released and the outer catch answers 500
QueryFailNoRollback(r) ==
  /\ pc[r] \in TxOps
  /\ response' = [response EXCEPT ![r] = ServerError]
  /\ pc' = [pc EXCEPT ![r] = "done"]
  /\ UNCHANGED <<contacts, nextId, arrivals, email, phoneNumber, txStart,
                 txInserts, txUpdates, existingContacts, primaryContact,
                 familyContacts, toDemote, storeBefore, prev>>

\* the awaited query rejects and has no effect: control enters the inner catch
QueryFail(r) ==
  /\ pc[r] \in TxOps
  /\ pc' = [pc EXCEPT ![r] = "rollback"]
  /\ UNCHANGED <<contacts, nextId, arrivals, email, phoneNumber, txStart,
                 txInserts, txUpdates, existingContacts, primaryContact,
                 familyContacts, toDemote, response, storeBefore, prev>>

\* ROLLBACK: the committed rows stay as they are
RolledBack(db, inserts, updates) == db

\* mutant of Rollback: the catch block does not rethrow, and the handler goes
\* on to answer 200 with the primary it had
RollbackThenOk(r) ==
  /\ pc[r] = "rollback"
  /\ contacts' = RolledBack(contacts, txInserts[r], txUpdates[r])
  /\ txInserts' = [txInserts EXCEPT ![r] = {}]
  /\ txUpdates' = [txUpdates EXCEPT ![r] = <<>>]
  /\ response' = [response EXCEPT ![r] =
                    MatchResponse(primaryContact[r], familyContacts[r])]
  /\ pc' = [pc EXCEPT ![r] = "done"]
  /\ UNCHANGED <<nextId, arrivals, email, phoneNumber, txStart,
                 existingContacts, primaryContact, familyContacts, toDemote,
                 storeBefore, prev>>

\* catch: await client.query('ROLLBACK'); throw error; finally
\* client.release(); the outer catch answers 500. (A ROLLBACK that rejects
\* because the connection is gone leaves the same state: the server drops
\* the transaction.)
Rollback(r) ==
  /\ pc[r] = "rollback"
  /\ contacts' = RolledBack(contacts, txInserts[r], txUpdates[r])
  /\ txInserts' = [txInserts EXCEPT ![r] = {}]
  /\ txUpdates' = [txUpdates EXCEPT ![r] = <<>>]
  /\ response' = [response EXCEPT ![r] = ServerError]
  /\ pc' = [pc EXCEPT ![r] = "done"]
  /\ UNCHANGED <<nextId, arrivals, email, phoneNumber, txStart,
                 existingContacts, primaryContact, familyContacts, toDemote,
                 storeBefore, prev>>

\* every step of an invocation between taking the request and its answer
Step(r) ==
  \/ Connect(r)
  \/ Begin(r)
  \/ FindRelated(r)
  \/ InsertPrimary(r)
  \/ CommitFresh(r)
  \/ Promote(r)
  \/ FindFamily(r)
  \/ InsertSecondary(r)
  \/ Demote(r)
  \/ Commit(r)

\* a request takes the first free slot (the slots are interchangeable)
FirstFree(r) == pc[r] = "idle" /\ \A o \in Requests : o < r => pc[o] # "idle"

\* the server: requests arrive at any time and their handlers interleave at
\* every await
Next ==
  \/ \E r \in Requests, e \in InputEmails, p \in InputPhones :
       FirstFree(r) /\ arrivals < MaxRaceArrivals /\ Identify(r, e, p)
  \/ \E r \in Requests : Step(r)
  \/ \E r \in Requests : Finish(r) /\ UNCHANGED prev

Spec == Init /\ [][Next]_vars

\* one client that sends each request after the previous one was answered,
\* and keeps the last answer
SeqNext ==
  \/ \E e \in InputEmails, p \in InputPhones : Identify(1, e, p)
  \/ Step(1)
  \/ Finish(1) /\ prev' = [email |-> email[1], phoneNumber |-> phoneNumber[1],
                           response |-> response[1]]

SeqSpec == Init /\ [][SeqNext]_vars

\* a store filled by requests served one at a time, then requests that
\* overlap
WarmNext ==
  \/ \E r \in Requests, e \in InputEmails, p \in InputPhones :
       /\ FirstFree(r)
       /\ arrivals <= MaxWarmup => \A o \in Requests : pc[o] = "idle"
       /\ Identify(r, e, p)
  \/ \E r \in Requests : Step(r)
  \/ \E r \in Requests : Finish(r) /\ UNCHANGED prev

WarmSpec == Init /\ [][WarmNext]_vars

\* the requests that hold a client of the pool: from pool.connect() to
\* client.release()
Holding == {r \in Requests : pc[r] \notin {"idle", "connect", "done"}}

\* pool.connect() and pool.query() both wait for a free connection; no
\* connectionTimeoutMillis is set, so the wait has no end of its own
PoolFree == Cardinality(Holding) < PoolMax

\* a step of the handler on a bounded pool: pool.connect(), and the
\* pool.query() of findRelatedContacts and findContactFamily, need a free
\* connection while the request keeps its own client
PoolStep(r) ==
  /\ pc[r] \in {"connect", "findRelated", "findFamily"} => PoolFree
  /\ Step(r)

PoolNext ==
  \/ \E r \in Requests, e \in InputEmails, p \in InputPhones :
       FirstFree(r) /\ arrivals < MaxRaceArrivals /\ Identify(r, e, p)
  \/ \E r \in Requests : PoolStep(r)
  \/ \E r \in Requests : Finish(r) /\ UNCHANGED prev

PoolSpec == Init /\ [][PoolNext]_vars

\* the event loop runs every handler whose awaited promise has settled
PoolFairSpec == PoolSpec /\ \A r \in Requests : WF_vars(PoolStep(r))

\* the value of deleted_at of a soft-deleted row
DELETED == "deleted"

\* deleted_at TIMESTAMP WITH TIME ZONE: the column is set from outside the
\* handler, by an UPDATE contacts SET deleted_at = ... WHERE id = ..., which
\* waits for a row lock like any UPDATE
SoftDelete(id) ==
  /\ Cardinality({c \in contacts : c.deleted_at # NULL}) < MaxDeletes
  /\ \E c \in contacts : c.id = id /\ c.deleted_at = NULL
  /\ \A r \in Requests : id \notin LockedBy(r)
  /\ contacts' = {IF c.id = id THEN [c EXCEPT !.deleted_at = DELETED] ELSE c : c \in contacts}
  /\ UNCHANGED <<nextId, arrivals, pc, email, phoneNumber, txStart, txInserts,
                 txUpdates, existingContacts, primaryContact, familyContacts,
                 toDemote, response, storeBefore, prev>>

\* one client, and contacts that are soft-deleted at any time
DelNext ==
  \/ SeqNext
  \/ \E id \in 1..MaxArrivals : SoftDelete(id)

DelSpec == Init /\ [][DelNext]_vars

\* the request fields as they come in the JSON body: a value, absent, or the
\* empty string
RawEmails == InputEmails \cup {""}
RawPhones == InputPhones \cup {""}

\* one client whose requests may carry empty strings
RawNext ==
  \/ \E e \in RawEmails, p \in RawPhones : Identify(1, e, p)
  \/ Step(1)
  \/ Finish(1) /\ prev' = [email |-> email[1], phoneNumber |-> phoneNumber[1],
                           response |-> response[1]]

RawSpec == Init /\ [][RawNext]_vars

\* two owners, each with a session of its own (slot r carries the requests
\* of owner r), served one request at a time. The handler reads email and
\* phoneNumber from the body and nothing that names the owner, and the
\* contacts table has no owner column.
OwnerNext ==
  \/ \E r \in Requests, e \in InputEmails, p \in InputPhones :
       /\ \A o \in Requests : pc[o] \in {"idle", "done"}
       /\ Identify(r, e, p)
  \/ \E r \in Requests : Step(r)
  \/ \E r \in Requests : Finish(r) /\ UNCHANGED prev

OwnerSpec == Init /\ [][OwnerNext]_vars

\* requests that overlap on the empty store, then requests served one at a
\* time on the store they left
EarlyNext ==
  \/ \E r \in Requests, e \in InputEmails, p \in InputPhones :
       /\ FirstFree(r)
       /\ arrivals >= MaxEarly => \A o \in Requests : pc[o] = "idle"
       /\ Identify(r, e, p)
  \/ \E r \in Requests : Step(r)
  \/ \E r \in Requests : Finish(r) /\ UNCHANGED prev

EarlySpec == Init /\ [][EarlyNext]_vars

\* one client, and store operations that may fail
FailNext ==
  \/ SeqNext
  \/ ConnectFail(1)
  \/ QueryFail(1)
  \/ Rollback(1)

FailSpec == Init /\ [][FailNext]_vars

\* ------------------------------------------------- the Firestore-backed form

\* a document of the contacts collection of one user, as createContact writes
\* it; a form field left empty is the request field that is absent
FirebaseContact(id, e, p, created) ==
  [id |-> id, email |-> e, phoneNumber |-> p, linkPrecedence |-> "primary",
   createdAt |-> created]

\* every listing of the documents S (a query without orderBy)
AnyOrder(S) == OrderBy(S, [c \in S |-> 0])

\* FirebaseContactService.findRelatedContacts(email, phoneNumber, userId):
\* the documents with the email, then the documents with the phone number
\* that are not listed yet
FirebaseFindRelatedContacts(docs, e, p) ==
  LET byEmail == IF Truthy(e) THEN {c \in docs : c.email = e} ELSE {}
      byPhone == IF Truthy(p) THEN {c \in docs : c.phoneNumber = p} \ byEmail ELSE {}
  IN {a \o b : a \in AnyOrder(byEmail), b \in AnyOrder(byPhone)}

\* FirebaseContactService.getContactsByUser(userId): orderBy createdAt asc
getContactsByUser(docs) == OrderBy(docs, [c \in docs |-> c.createdAt])

\* the result handleSubmit shows: the first primary of all the user's
\* contacts, and the emails and phone numbers of all of them
FirebaseResult(allContacts) ==
  LET primaries   == Filter(allContacts, [c \in Range(allContacts) |-> c.linkPrecedence = "primary"])
      secondaries == Filter(allContacts, [c \in Range(allContacts) |-> c.linkPrecedence = "secondary"])
      es == [i \in DOMAIN allContacts |-> allContacts[i].email]
      ps == [i \in DOMAIN allContacts |-> allContacts[i].phoneNumber]
  IN [status |-> 200,
      primaryContactId |-> IF primaries # <<>> THEN primaries[1].id ELSE allContacts[1].id,
      emails |-> Dedup(Filter(es, [x \in Range(es) |-> Truthy(x)])),
      phoneNumbers |-> Dedup(Filter(ps, [x \in Range(ps) |-> Truthy(x)])),
      secondaryContactIds |-> [i \in DOMAIN secondaries |-> secondaries[i].id]]

\* handleSubmit on the documents docs, with id and now for a new document:
\* the outcomes [docs, result]. A matched request overwrites the first match
\* (updateContact), an unmatched one adds a primary (createContact). A write
\* with an undefined field is rejected by Firestore unless the client was
\* initialised to ignore such fields; that initialisation is not in the
\* sources, so both outcomes are kept (the rejected one shows no result).
handleSubmit(docs, id, now, e, p) ==
  IF ~Truthy(e) /\ ~Truthy(p) THEN {[docs |-> docs, result |-> NoResponse]}
  ELSE
    LET written(existing) ==
          IF existing # <<>>
          THEN LET old == existing[1]
                   new == [old EXCEPT !.email = IF Truthy(e) THEN e ELSE old.email,
                                      !.phoneNumber = IF Truthy(p) THEN p ELSE old.phoneNumber]
               IN [docs |-> (docs \ {old}) \cup {new},
                   rejected |-> new.email = NULL \/ new.phoneNumber = NULL]
          ELSE [docs |-> docs \cup {FirebaseContact(id, IF Truthy(e) THEN e ELSE NULL,
                                                    IF Truthy(p) THEN p ELSE NULL, now)},
                rejected |-> ~Truthy(e) \/ ~Truthy(p)]
    IN UNION {
         LET w == written(existing)
         IN {[docs |-> w.docs, result |-> FirebaseResult(all)] : all \in getContactsByUser(w.docs)}
            \cup (IF w.rejected THEN {[docs |-> docs, result |-> NoResponse]} ELSE {})
         : existing \in FirebaseFindRelatedContacts(docs, e, p)}

\* ------------------------------------------------------------------ claims

\* the request slot r holds an answered request
Answered(r) == pc[r] = "done"
Ok(r) == Answered(r) /\ response[r].status = 200

Ids(db) == {c.id : c \in db}
\* the family of contact id in db: the non-deleted rows connected to it
\* through linked_id
FamilyOf(db, id) == ContactFamilyRows(db, {c \in Live(db) : c.id = id})
PrimariesOf(db) == {c \in db : c.link_precedence = "primary"}

\* C1: N >= 2 concurrent requests with the same never-seen (email, phone)
\* leave exactly one primary carrying the pair, and all return its id.
C1_NoDuplicatePrimary ==
  \A r1, r2 \in Requests :
    ( /\ r1 # r2 /\ Ok(r1) /\ Ok(r2)
      /\ email[r1] = email[r2] /\ phoneNumber[r1] = phoneNumber[r2]
      /\ RelatedRows(storeBefore[r1], email[r1], phoneNumber[r1]) = {}
      /\ RelatedRows(storeBefore[r2], email[r2], phoneNumber[r2]) = {} )
    => /\ Cardinality({c \in PrimariesOf(contacts) :
                         c.email = email[r1] /\ c.phone_number = phoneNumber[r1]}) = 1
       /\ response[r1].primaryContactId = response[r2].primaryContactId

\* C2: in every committed store, every secondary's linked_id refers to a
\* primary contact, never to another secondary.
C2_NoMultiHop ==
  \A c \in contacts :
    c.link_precedence = "secondary"
    => \E d \in contacts : d.id = c.linked_id /\ d.link_precedence = "primary"

\* C3: in every committed store, each family holds exactly one primary.
C3_OnePrimaryPerFamily ==
  \A c \in Live(contacts) :
    Cardinality(PrimariesOf(FamilyOf(contacts, c.id))) = 1

\* the second of two identical requests sent one after the other is answered
SecondOfTwo ==
  /\ Ok(1) /\ prev.response.status = 200
  /\ prev.email = email[1] /\ prev.phoneNumber = phoneNumber[1]

\* C4: a second identical request returns the same primaryContactId and a
\* secondaryContactIds list that is not longer.
C4_IdempotentResponse ==
  SecondOfTwo
  => /\ response[1].primaryContactId = prev.response.primaryContactId
     /\ Len(response[1].secondaryContactIds) <= Len(prev.response.secondaryContactIds)

\* the first half of C4 alone: the second answer names the same
\* primaryContactId
C4_SamePrimary ==
  SecondOfTwo => response[1].primaryContactId = prev.response.primaryContactId

\* P1 and P2 are two independent primaries of db, P1 matching the request's
\* email and P2 its phone
Bridges(db, P1, P2, e, p) ==
  /\ P1 \in PrimariesOf(Live(db)) /\ P2 \in PrimariesOf(Live(db))
  /\ P1.linked_id = NoId /\ P2.linked_id = NoId
  /\ P2 \notin FamilyOf(db, P1.id)
  /\ Truthy(e) /\ P1.email = e
  /\ Truthy(p) /\ P2.phone_number = p

\* the row of db with this id
RowOf(db, id) == CHOOSE c \in db : c.id = id

\* C5: a request bridging two independent primaries leaves the earlier-created
\* one primary, makes the other a secondary linked to it, and returns the
\* survivor's id.
C5_MergeKeepsOldest ==
  Ok(1) =>
    \A P1, P2 \in storeBefore[1] :
      Bridges(storeBefore[1], P1, P2, email[1], phoneNumber[1])
      => LET survivor == IF P1.created_at < P2.created_at THEN P1 ELSE P2
             other    == IF P1.created_at < P2.created_at THEN P2 ELSE P1
         IN /\ P1.created_at # P2.created_at
            /\ RowOf(contacts, survivor.id).link_precedence = "primary"
            /\ RowOf(contacts, other.id).link_precedence = "secondary"
            /\ RowOf(contacts, other.id).linked_id = survivor.id
            /\ response[1].primaryContactId = survivor.id

\* a bridging request has been answered
C5_Witness ==
  /\ Ok(1)
  /\ \E P1, P2 \in storeBefore[1] :
       Bridges(storeBefore[1], P1, P2, email[1], phoneNumber[1])

NoDuplicates(s) == Len(s) = Cardinality(Range(s))

\* C6: emails and phoneNumbers of a 200 response are the duplicate-free sets of
\* the non-null emails and phones of the family of primaryContactId in the
\* store the request committed.
C6_ResponseCoversFamily ==
  Ok(1) =>
    LET family == FamilyOf(contacts, response[1].primaryContactId)
    IN /\ Range(response[1].emails) = {c.email : c \in family} \ {NULL}
       /\ Range(response[1].phoneNumbers) = {c.phone_number : c \in family} \ {NULL}
       /\ NoDuplicates(response[1].emails)
       /\ NoDuplicates(response[1].phoneNumbers)

\* s lists ids of rows of db in ascending created_at order
AscendingCreatedAt(db, s) ==
  \A i, j \in DOMAIN s :
    i < j => RowOf(db, s[i]).created_at <= RowOf(db, s[j]).created_at

\* C7: secondaryContactIds of a 200 response lists exactly the secondary
\* members of the family of primaryContactId in the committed store, in
\* ascending createdAt order.
C7_SecondaryIdsExact ==
  Ok(1) =>
    LET family == FamilyOf(contacts, response[1].primaryContactId)
        ids    == response[1].secondaryContactIds
    IN /\ Range(ids) = {c.id : c \in {c \in family : c.link_precedence = "secondary"}}
       /\ NoDuplicates(ids)
       /\ AscendingCreatedAt(contacts, ids)

\* the rows the request created
Created(r) == {c \in contacts : c.id \notin Ids(storeBefore[r])}

\* c is a primary of db with the request's email whose family lacks the
\* request's phone
AttachCase(db, c, e, p) ==
  /\ c \in PrimariesOf(Live(db))
  /\ Truthy(e) /\ c.email = e
  /\ Truthy(p) /\ p \notin {d.phone_number : d \in FamilyOf(db, c.id)}

\* what C8 promises about primary c
AttachResult(c) ==
  /\ response[1].primaryContactId = c.id
  /\ phoneNumber[1] \in Range(response[1].phoneNumbers)
  /\ Cardinality(Created(1)) = 1
  /\ \A n \in Created(1) :
       /\ n.link_precedence = "secondary"
       /\ n.linked_id = c.id
       /\ n.email = NULL
       /\ n.phone_number = phoneNumber[1]

\* C8 as stated: given a family whose primary has email A, /identify(A, P)
\* with a phone P not present in that family returns that primary, lists P,
\* and creates exactly one contact, a secondary linked to that primary that
\* carries only P.
C8_AttachAsStated ==
  Ok(1) =>
    \A c \in storeBefore[1] :
      AttachCase(storeBefore[1], c, email[1], phoneNumber[1]) => AttachResult(c)

\* C8 amended: the same, for a phone P that no non-deleted contact of the
\* store carries (a phone of another family makes the request a merge).
C8_AttachNewPhone ==
  Ok(1) =>
    \A c \in storeBefore[1] :
      ( /\ AttachCase(storeBefore[1], c, email[1], phoneNumber[1])
        /\ \A d \in Live(storeBefore[1]) : d.phone_number # phoneNumber[1] )
      => AttachResult(c)

\* a request attaching a phone new to the store has been answered
C8_Witness ==
  /\ Ok(1)
  /\ \E c \in storeBefore[1] :
       /\ AttachCase(storeBefore[1], c, email[1], phoneNumber[1])
       /\ \A d \in Live(storeBefore[1]) : d.phone_number # phoneNumber[1]

\* C9: a request that matches no non-deleted contact creates exactly one
\* contact, a primary with linkedId null carrying the supplied fields, and
\* answers with its id, the supplied fields and no secondaries.
C9_FreshIdentity ==
  (Ok(1) /\ RelatedRows(storeBefore[1], email[1], phoneNumber[1]) = {}) =>
    /\ Cardinality(Created(1)) = 1
    /\ contacts = storeBefore[1] \cup Created(1)
    /\ \A n \in Created(1) :
         /\ n.link_precedence = "primary"
         /\ n.linked_id = NoId
         /\ n.email = email[1]
         /\ n.phone_number = phoneNumber[1]
         /\ response[1].primaryContactId = n.id
    /\ response[1].emails = IF email[1] = NULL THEN <<>> ELSE <<email[1]>>
    /\ response[1].phoneNumbers = IF phoneNumber[1] = NULL THEN <<>> ELSE <<phoneNumber[1]>>
    /\ response[1].secondaryContactIds = <<>>

\* a fresh identity was created in a store that already holds contacts
C9_Witness ==
  /\ Ok(1) /\ RelatedRows(storeBefore[1], email[1], phoneNumber[1]) = {}
  /\ storeBefore[1] # {}
  /\ email[1] # NULL /\ phoneNumber[1] = NULL

\* C10: a request with neither email nor phoneNumber is answered 400 with an
\* error field in the step that receives it, before any client is asked for
\* or transaction begun, and the store is unchanged.
C10_ValidationRejects ==
  [][\A r \in Requests :
       (pc[r] = "idle" /\ pc'[r] # "idle"
        /\ email'[r] = NULL /\ phoneNumber'[r] = NULL)
       => /\ pc'[r] = "done"
          /\ response'[r].status = 400
          /\ "error" \in DOMAIN response'[r]
          /\ contacts' = contacts
          /\ nextId' = nextId
          /\ txStart'[r] = 0 /\ txInserts'[r] = {} /\ txUpdates'[r] = <<>>]_vars

\* a rejected request in a store that holds contacts
C10_Witness ==
  /\ Answered(1) /\ email[1] = NULL /\ phoneNumber[1] = NULL
  /\ response[1].status = 400
  /\ contacts # {}

\* C11: a 200 response lists the request's email in emails when one was
\* supplied and the request's phone in phoneNumbers when one was supplied,
\* whatever the store held before.
C11_ResponseEchoesRequest ==
  Ok(1) =>
    /\ email[1] # NULL => email[1] \in Range(response[1].emails)
    /\ phoneNumber[1] # NULL => phoneNumber[1] \in Range(response[1].phoneNumbers)

\* a request with both fields, one of them new to the family it matched, has
\* been answered
C11_Witness ==
  /\ Ok(1) /\ email[1] # NULL /\ phoneNumber[1] # NULL
  /\ RelatedRows(storeBefore[1], email[1], phoneNumber[1]) # {}
  /\ Created(1) # {}

\* C12: once a store operation of a request has failed after BEGIN, the
\* transaction is rolled back, the answer is a 500 and never a 200, and the
\* committed store is what it was before the request.
C12_FailureAtomic ==
  [][/\ (pc[1] # "rollback" /\ pc'[1] = "rollback")
          => /\ pc[1] \in TxOps
             /\ contacts' = storeBefore[1]
             /\ response'[1] = NoResponse
     /\ pc[1] = "rollback"
          => /\ pc'[1] = "done"
             /\ response'[1].status = 500
             /\ contacts' = storeBefore[1]
             /\ txInserts'[1] = {} /\ txUpdates'[1] = <<>>]_vars

\* a request was answered 500 after an INSERT of its transaction had run
\* (the id the INSERT took is used and the row is not in the store)
C12_Witness ==
  /\ Answered(1) /\ response[1].status = 500
  /\ contacts # {} /\ contacts = storeBefore[1]
  /\ \A c \in contacts : c.id < nextId - 1
  /\ primaryContact[1].id # NoId

\* C13: the committed store changes only by the COMMIT of one request, which
\* makes all the writes of its transaction visible together, and what a
\* request reads is committed rows only: no request observes a part of
\* another request's merge or link.
C13_AtomicVisibility ==
  [][/\ contacts' # contacts
          => \E r \in Requests :
               /\ pc[r] \in {"commit", "commitFresh"} /\ pc'[r] = "done"
               /\ response'[r].status = 200
               /\ contacts' = Committed(contacts, txInserts[r], txUpdates[r])
               /\ txInserts'[r] = {} /\ txUpdates'[r] = <<>>
     /\ \A r \in Requests :
          /\ (pc[r] = "findRelated" /\ pc'[r] # "findRelated")
               => Range(existingContacts'[r]) \subseteq contacts
          /\ (pc[r] = "findFamily" /\ pc'[r] # "findFamily")
               => Range(familyContacts'[r]) \subseteq contacts]_vars

\* a request committed an INSERT and an UPDATE together while another
\* request, which had read the store before that COMMIT, was still running
C13_Witness ==
  \E r, o \in Requests :
    /\ r # o /\ Ok(r)
    /\ \E c \in contacts : c.id \notin Ids(storeBefore[r]) /\ c.linked_id = response[r].primaryContactId
    /\ \E c \in storeBefore[r] : c \notin contacts
    /\ pc[o] \in {"promote", "findFamily", "insertSecondary", "demote", "commit"}
    /\ existingContacts[o] # <<>>
    /\ Range(existingContacts[o]) \subseteq storeBefore[r]

\* C14: every request that passed validation is answered in the end, on a
\* bounded connection pool and with other requests running.
C14_EventuallyResponds ==
  \A r \in Requests : (pc[r] = "connect") ~> (pc[r] = "done")

\* C14, the state that refutes it: while a request is in flight some request
\* can take a step.
C14_NeverStuck ==
  InFlight # {} => ENABLED (\E r \in Requests : PoolStep(r))

\* the primary of ps the stated order puts first: smallest created_at, then
\* smallest id
FirstByCreatedAtThenId(ps) ==
  CHOOSE c \in ps : \A d \in ps :
    \/ c.created_at < d.created_at
    \/ c.created_at = d.created_at /\ c.id <= d.id

\* C15: when a request matched several primaries, the survivor it answers
\* with is the one with the smallest created_at and, among equal created_at,
\* the smallest id.
C15_TieBreakById ==
  \A r \in Requests :
    (Ok(r) /\ Len(multiplePrimaries(existingContacts[r])) > 1)
    => response[r].primaryContactId
         = FirstByCreatedAtThenId(Range(multiplePrimaries(existingContacts[r]))).id

\* C15 without the ties: the primaries a request matched have different
\* created_at, and the survivor is the oldest of them.
C15_OldestWhenNoTie ==
  \A r \in Requests :
    (/\ Ok(r) /\ Len(multiplePrimaries(existingContacts[r])) > 1
     /\ \A c, d \in Range(multiplePrimaries(existingContacts[r])) :
          c # d => c.created_at # d.created_at)
    => response[r].primaryContactId
         = FirstByCreatedAtThenId(Range(multiplePrimaries(existingContacts[r]))).id

\* C16: in a 200 response the email (phone) of the primary it names, when
\* that primary has one, is the first element of emails (phoneNumbers).
C16_PrimaryValuesFirst ==
  Ok(1) =>
    LET primary == RowOf(contacts, response[1].primaryContactId)
    IN /\ primary.email # NULL
            => /\ response[1].emails # <<>>
               /\ response[1].emails[1] = primary.email
       /\ primary.phone_number # NULL
            => /\ response[1].phoneNumbers # <<>>
               /\ response[1].phoneNumbers[1] = primary.phone_number

\* contact c carries the email or the phone of the request (e, p), deleted
\* or not
Carries(c, e, p) ==
  (e # NULL /\ c.email = e) \/ (p # NULL /\ c.phone_number = p)

\* C17: a contact that was soft-deleted when the request arrived is not among
\* the rows the request matched or the family it expanded, is not named in
\* the response and is left as it was; and a request that matches soft-deleted
\* contacts only creates a fresh primary and answers with it.
C17_DeletedInvisible ==
  /\ \A d \in storeBefore[1] :
       d.deleted_at # NULL
       => /\ d \in contacts
          /\ d.id \notin Ids(Range(existingContacts[1]))
          /\ d.id \notin Ids(Range(familyContacts[1]))
          /\ Ok(1) => /\ response[1].primaryContactId # d.id
                      /\ d.id \notin Range(response[1].secondaryContactIds)
  /\ (/\ Ok(1)
      /\ \A c \in storeBefore[1] :
           Carries(c, email[1], phoneNumber[1]) => c.deleted_at # NULL)
     => /\ response[1] = FreshResponse(RowOf(contacts, response[1].primaryContactId),
                                       email[1], phoneNumber[1])
        /\ response[1].primaryContactId \notin Ids(storeBefore[1])
        /\ LET n == RowOf(contacts, response[1].primaryContactId)
           IN /\ n.link_precedence = "primary" /\ n.linked_id = NoId
              /\ n.email = email[1] /\ n.phone_number = phoneNumber[1]

\* a request whose email or phone is carried by a soft-deleted contact, and by
\* no other contact, has been answered
C17_Witness ==
  /\ Ok(1)
  /\ \E d \in storeBefore[1] :
       Carries(d, email[1], phoneNumber[1]) /\ d.deleted_at # NULL
  /\ \A c \in storeBefore[1] :
       Carries(c, email[1], phoneNumber[1]) => c.deleted_at # NULL

\* C18: every contact of the store, and every contact a running transaction
\* has inserted, has an email or a phone number.
C18_NoEmptyContact ==
  \A c \in contacts \cup UNION {txInserts[r] : r \in Requests} :
    c.email # NULL \/ c.phone_number # NULL

\* the store holds a primary and a secondary that /identify created with one
\* of the two fields null
C18_Witness ==
  /\ \E c \in contacts : c.link_precedence = "primary" /\ c.phone_number = NULL
  /\ \E c \in contacts : c.link_precedence = "secondary" /\ c.email = NULL

\* C19: a request whose email is the email of one primary and whose phone is
\* the phone of another, independent primary creates no contact.
C19_BridgeCreatesNothing ==
  (/\ Ok(1)
   /\ \E P1, P2 \in storeBefore[1] :
        Bridges(storeBefore[1], P1, P2, email[1], phoneNumber[1]))
  => Created(1) = {}

\* C20: a contact that was a secondary when the request arrived is a
\* secondary when the request is answered.
C20_NoPromotion ==
  Answered(1) =>
    \A c \in storeBefore[1] :
      c.link_precedence = "secondary"
      => RowOf(contacts, c.id).link_precedence = "secondary"

\* the contact reached from c by following linked_id in db
RECURSIVE HeadOf(_, _)
HeadOf(db, c) ==
  IF c.linked_id = NoId \/ c.linked_id \notin Ids(db) THEN c
  ELSE HeadOf(db, RowOf(db, c.linked_id))

\* the earliest of the rows S (the first by created_at, then id)
Earliest(S) ==
  CHOOSE c \in S : \A d \in S :
    c.created_at < d.created_at \/ (c.created_at = d.created_at /\ c.id <= d.id)

\* C21: when the contacts a request matches include no primary, the answer
\* names the primary reached by linked_id from the earliest match, and no
\* contact of the store is modified.
C21_HeadOfEarliestMatch ==
  LET matched == RelatedRows(storeBefore[1], email[1], phoneNumber[1])
  IN (/\ Ok(1) /\ matched # {}
      /\ \A c \in matched : c.link_precedence # "primary")
     => /\ response[1].primaryContactId
             = HeadOf(storeBefore[1], Earliest(matched)).id
        /\ \A c \in storeBefore[1] : c \in contacts

\* the rows transaction r sees: the committed rows with its own inserts and
\* updates applied
TxView(r) == Committed(contacts, txInserts[r], txUpdates[r])

\* C22: the match lookup and the family expansion of a request read what its
\* transaction sees, its own writes included.
C22_ReadsInsideTransaction ==
  [][\A r \in Requests :
       /\ (pc[r] = "findRelated" /\ pc'[r] \notin {"findRelated", "rollback"})
            => Range(existingContacts'[r]) \subseteq TxView(r)
       /\ (pc[r] = "findFamily" /\ pc'[r] \notin {"findFamily", "rollback"})
            => Range(familyContacts'[r]) \subseteq TxView(r)]_vars

\* served one after the other, the second of two identical requests names
\* the primary the first named and creates nothing: what every serial
\* execution of two identical requests gives
C23_SerialTwins ==
  SecondOfTwo
  => /\ response[1].primaryContactId = prev.response.primaryContactId
     /\ Created(1) = {}

\* C23: two identical requests that ran together on the same store end as
\* one of their two serial executions does: both name the same primary and
\* at most one contact was created.
C23_SerializableTwins ==
  \A r, o \in Requests :
    (/\ r # o /\ Ok(r) /\ Ok(o)
     /\ storeBefore[r] = storeBefore[o]
     /\ email[r] = email[o] /\ phoneNumber[r] = phoneNumber[o])
    => /\ response[r].primaryContactId = response[o].primaryContactId
       /\ Cardinality({c \in contacts : c.id \notin Ids(storeBefore[r])}) <= 1

\* C24: a contact of the store has no linked_id exactly when it is a primary.
C24_LinkedIffSecondary ==
  \A c \in contacts : (c.linked_id = NoId) <=> (c.link_precedence = "primary")

\* C25: after a 200 answer every non-deleted contact that carries the
\* request's email or phone is in the family of the primary the answer names.
C25_MatchesInFamily ==
  Ok(1) =>
    \A c \in Live(contacts) :
      Carries(c, email[1], phoneNumber[1])
      => c \in FamilyOf(contacts, response[1].primaryContactId)

\* C26: no contact of the store has the empty string as email or phone
\* number (an empty string in a request is stored as an absent field is).
C26_NoEmptyStringStored ==
  \A c \in contacts : c.email # "" /\ c.phone_number # ""

\* C27: a contact created by a request of owner 1 is not named in an answer
\* to owner 2.
C27_OwnersDisjoint ==
  (/\ Ok(1) /\ Ok(2)
   /\ response[1].primaryContactId \notin Ids(storeBefore[1]))
  => /\ response[2].primaryContactId # response[1].primaryContactId
     /\ response[1].primaryContactId \notin Range(response[2].secondaryContactIds)

\* in a running request that matched several primaries: the primary chosen
\* before the new-information check is the survivor of the consolidation,
\* the inserted secondary is linked to it, the request does not demote it,
\* and it is the earliest of the matched primaries
SurvivorIsActingPrimary ==
  \A r \in Requests :
    Len(multiplePrimaries(existingContacts[r])) > 1
    => LET ps       == multiplePrimaries(existingContacts[r])
           survivor == oldestPrimary(ps)
       IN /\ pc[r] \in {"findFamily", "insertSecondary", "demote", "commit"}
               => primaryContact[r].id = survivor.id
          /\ \A c \in txInserts[r] : c.linked_id = survivor.id
          /\ \A i \in DOMAIN txUpdates[r] : txUpdates[r][i].id # survivor.id
          /\ \A d \in Range(ps) : survivor.created_at <= d.created_at

\* C28: in a request that matched several primaries, the secondary it
\* inserts is linked to the survivor of the consolidation, which is the
\* primary chosen before the new-information check and which the request
\* does not demote; once committed, the new secondary is linked to the
\* primary the answer names.
C28_NewSecondaryUnderSurvivor ==
  /\ SurvivorIsActingPrimary
  /\ (Ok(1) /\ Len(multiplePrimaries(existingContacts[1])) > 1)
     => \A c \in Created(1) :
          /\ c.link_precedence = "secondary"
          /\ c.linked_id = response[1].primaryContactId
          /\ RowOf(contacts, c.linked_id).link_precedence = "primary"

\* a request that matched two primaries has merged them and created a
\* secondary
C28_Witness ==
  /\ Ok(1)
  /\ Len(multiplePrimaries(existingContacts[1])) > 1
  /\ Created(1) # {}
  /\ \E c \in storeBefore[1] :
       /\ c.link_precedence = "primary"
       /\ RowOf(contacts, c.id).link_precedence = "secondary"

\* what one request adds to the store: nothing is removed, and at most one
\* contact is created, a primary when nothing matched and a secondary when
\* something matched
OneContactAtMost ==
  /\ \A r \in Requests : Cardinality(txInserts[r]) <= 1
  /\ Answered(1)
     => /\ Ids(storeBefore[1]) \subseteq Ids(contacts)
        /\ Cardinality(Created(1)) <= 1
        /\ \A c \in Created(1) :
             IF RelatedRows(storeBefore[1], email[1], phoneNumber[1]) = {}
             THEN c.link_precedence = "primary"
             ELSE c.link_precedence = "secondary"

\* C29: the set of contacts only grows, and a request creates at most one
\* contact: a fresh primary when nothing matched, or one secondary when
\* something matched.
C29_StoreOnlyGrows ==
  [][/\ Ids(contacts) \subseteq Ids(contacts')
     /\ OneContactAtMost']_vars

\* a request that matched contacts has created one secondary
C29_Witness ==
  /\ Ok(1)
  /\ RelatedRows(storeBefore[1], email[1], phoneNumber[1]) # {}
  /\ Cardinality(Created(1)) = 1
  /\ \A c \in Created(1) : c.link_precedence = "secondary"

\* C30: a contact that was in the store when the request arrived keeps its
\* id, email, phone number and created_at (and deleted_at); if anything of it
\* changed, it is a contact the request matched.
C30_FrameOfUpdates ==
  \A c \in storeBefore[1] :
    /\ c.id \in Ids(contacts)
    /\ LET n == RowOf(contacts, c.id)
       IN /\ n.email = c.email
          /\ n.phone_number = c.phone_number
          /\ n.created_at = c.created_at
          /\ n.deleted_at = c.deleted_at
          /\ n # c => c \in RelatedRows(storeBefore[1], email[1], phoneNumber[1])

\* a request has been answered after changing a contact of the store
C30_Witness ==
  /\ Ok(1)
  /\ \E c \in storeBefore[1] :
       /\ RowOf(contacts, c.id).link_precedence # c.link_precedence
       /\ RowOf(contacts, c.id).linked_id # c.linked_id

\* the request in slot 1 repeats the request answered 200 just before it
RepeatsPrevious ==
  /\ pc[1] # "idle" /\ prev.response.status = 200
  /\ prev.email = email[1] /\ prev.phoneNumber = phoneNumber[1]

\* C31: a request that repeats the request answered just before it writes
\* nothing: its transaction holds no insert and no update, and the committed
\* store stays what the first request left.
C31_SecondCallWritesNothing ==
  RepeatsPrevious
  => /\ txInserts[1] = {} /\ txUpdates[1] = <<>>
     /\ contacts = storeBefore[1]

\* a repeated request has been answered on a store where the first of the
\* two had left a family with a secondary
C31_Witness ==
  /\ RepeatsPrevious /\ Ok(1)
  /\ prev.response.secondaryContactIds # <<>>
  /\ Cardinality(contacts) >= 2

\* following linked_id from c in db ends, within n hops, at a contact that
\* has none
RECURSIVE EndsWithin(_, _, _)
EndsWithin(db, c, n) ==
  \/ c.linked_id = NoId
  \/ /\ n > 0
     /\ c.linked_id \in Ids(db)
     /\ EndsWithin(db, RowOf(db, c.linked_id), n - 1)

\* C32: every linked_id of the store names another contact of the store, and
\* following linked_id from a contact never comes back to a contact.
C32_LinksAcyclic ==
  \A c \in contacts :
    /\ c.linked_id # NoId => c.linked_id \in Ids(contacts) /\ c.linked_id # c.id
    /\ EndsWithin(contacts, c, Cardinality(contacts))

\* C33: in a 200 response the primaryContactId is not one of the
\* secondaryContactIds.
C33_PrimaryNotSecondary ==
  Ok(1) => response[1].primaryContactId \notin Range(response[1].secondaryContactIds)

\* C34: a request is answered once, with a 400, a 200 or a 500, at the step
\* that ends it; a 200 is sent only by the step that commits the request's
\* transaction, and a request whose transaction is rolled back is not
\* answered 200.
C34_OneResponseAfterCommit ==
  [][\A r \in Requests :
       /\ pc'[r] = "done" <=> response'[r] # NoResponse
       /\ (response'[r] # response[r] /\ response'[r] # NoResponse)
            => /\ response[r] = NoResponse /\ pc[r] # "done"
               /\ response'[r].status \in {200, 400, 500}
       /\ (response'[r] # response[r] /\ response'[r].status = 200)
            => /\ pc[r] \in {"commit", "commitFresh"}
               /\ contacts' = Committed(contacts, txInserts[r], txUpdates[r])
               /\ txInserts'[r] = {} /\ txUpdates'[r] = <<>>
       /\ pc[r] = "rollback" => response'[r].status # 200]_vars

\* a request has been answered 200 by a commit that changed the store, after
\* an earlier request was rolled back with an insert pending
C34_Witness ==
  /\ Ok(1)
  /\ contacts # storeBefore[1]
  /\ nextId > Cardinality(contacts) + 1

\* C35: a request takes its client at pool.connect() and gives it back at the
\* step that ends it, which is the step of its COMMIT or of its ROLLBACK; a
\* request that holds no client has no open transaction, and a request
\* writes only on its client after BEGIN.
C35_ClientReleasedAfterTxEnd ==
  [][\A r \in Requests :
       /\ (r \notin Holding /\ r \in Holding')
            => pc[r] = "connect" /\ pc'[r] = "begin"
       /\ (r \in Holding /\ r \notin Holding')
            => /\ pc'[r] = "done"
               /\ \/ /\ pc[r] \in {"commit", "commitFresh"}
                     /\ contacts' = Committed(contacts, txInserts[r], txUpdates[r])
                  \/ /\ pc[r] = "rollback"
                     /\ contacts' = contacts
       /\ r \notin Holding' => txInserts'[r] = {} /\ txUpdates'[r] = <<>>
       /\ (txInserts'[r] # txInserts[r] \/ txUpdates'[r] # txUpdates[r])
            => r \in Holding /\ txStart[r] # 0]_vars

\* a request that found no match has committed and released its client,
\* after an earlier request was rolled back with an insert pending
C35_Witness ==
  /\ Ok(1)
  /\ RelatedRows(storeBefore[1], email[1], phoneNumber[1]) = {}
  /\ pc[1] \notin {"idle"} /\ 1 \notin Holding
  /\ nextId > Cardinality(contacts) + 1

\* two answers that differ in the ids only
SameUpToIds(a, b) ==
  /\ a.status = b.status
  /\ a.emails = b.emails
  /\ a.phoneNumbers = b.phoneNumbers
  /\ Len(a.secondaryContactIds) = Len(b.secondaryContactIds)

\* C36: for the first two requests of one owner on an empty store, the
\* Firestore-backed form, whenever its writes are accepted, shows the answer
\* POST /identify gives and holds as many contacts.
C36_SameAsFirestore ==
  (arrivals = 2 /\ Ok(1) /\ prev.response.status = 200)
  => \A o1 \in handleSubmit({}, 1, 1, prev.email, prev.phoneNumber) :
       \A o2 \in handleSubmit(o1.docs, 2, 2, email[1], phoneNumber[1]) :
         (o1.result.status = 200 /\ o2.result.status = 200)
         => /\ SameUpToIds(o1.result, prev.response)
            /\ SameUpToIds(o2.result, response[1])
            /\ Cardinality(o2.docs) = Cardinality(contacts)
====
